---- MODULE Spec2Model ----
(***************************************************************************)
(* A model of src/code.py: the TextProcessor pipeline (tokenizer,          *)
(* lemmatizer, stopword filter, Porter stemmer, entity extractor, token    *)
(* and trigram counters, top-k accessors, summary) and the script that     *)
(* reads four files, builds four processors and prints their summaries.    *)
(*                                                                         *)
(* Python str values are TLA+ strings; Len, \o and SubSeq are the only     *)
(* string operations used.  A Python list is a sequence, a Counter is the  *)
(* sequence of its (key, count) items in insertion order.                  *)
(***************************************************************************)
EXTENDS Integers, Sequences, FiniteSets

VARIABLES fs, isMain, pc, texts, procs, stdout, ret

vars == <<fs, isMain, pc, texts, procs, stdout, ret>>

(***************************************************************************)
(* Characters and str helpers                                              *)
(***************************************************************************)
LowerLetters == "abcdefghijklmnopqrstuvwxyz"
UpperLetters == "ABCDEFGHIJKLMNOPQRSTUVWXYZ"
DigitChars == "0123456789"

Ch(s, i) == SubSeq(s, i, i)

CharsOf(s) == {Ch(s, i) : i \in 1..Len(s)}

LowerSet == CharsOf(LowerLetters)
UpperSet == CharsOf(UpperLetters)
LetterSet == LowerSet \cup UpperSet
\* \w of the re module on the ASCII range: letters, digits and the underscore
WordCharSet == LetterSet \cup CharsOf(DigitChars) \cup {"_"}

\* str.lower() on one character
LowerChar == [c \in UpperSet |-> Ch(LowerLetters, CHOOSE i \in 1..Len(UpperLetters) : Ch(UpperLetters, i) = c)]

RECURSIVE StrLower(_)
StrLower(s) ==
    IF Len(s) = 0 THEN ""
    ELSE LET c == Ch(s, 1)
         IN (IF c \in UpperSet THEN LowerChar[c] ELSE c) \o StrLower(SubSeq(s, 2, Len(s)))

\* str.endswith
EndsWith(w, suffix) ==
    /\ Len(w) >= Len(suffix)
    /\ SubSeq(w, Len(w) - Len(suffix) + 1, Len(w)) = suffix

\* the slice word[:-k], k > 0
DropLast(w, k) == IF Len(w) <= k THEN "" ELSE SubSeq(w, 1, Len(w) - k)

(***************************************************************************)
(* re.findall for the two patterns \b[a-zA-Z]+\b and \b[A-Z][a-zA-Z]*\b    *)
(***************************************************************************)
\* whether position p (1-based) of s holds a \w character; off the ends: no
IsWordAt(s, p) == p >= 1 /\ p <= Len(s) /\ Ch(s, p) \in WordCharSet

\* \b immediately before position p, p in 1..Len(s)+1
WordBoundary(s, p) == IsWordAt(s, p - 1) # IsWordAt(s, p)

\* The end of the match of \b first rest* \b that starts at pos, 0 for none.
\* The quantifier is greedy and backtracks: the longest run that ends at a \b.
MatchEnd(s, pos, first, rest) ==
    IF ~(pos <= Len(s) /\ WordBoundary(s, pos) /\ Ch(s, pos) \in first) THEN 0
    ELSE LET ends == {e \in pos..Len(s) :
                        /\ \A j \in (pos + 1)..e : Ch(s, j) \in rest
                        /\ WordBoundary(s, e + 1)}
         IN IF ends = {} THEN 0 ELSE CHOOSE e \in ends : \A f \in ends : f <= e

\* re.findall: non-overlapping matches, scanning left to right
RECURSIVE FindAll(_, _, _, _)
FindAll(s, pos, first, rest) ==
    IF pos > Len(s) THEN <<>>
    ELSE LET e == MatchEnd(s, pos, first, rest)
         IN IF e = 0 THEN FindAll(s, pos + 1, first, rest)
            ELSE <<SubSeq(s, pos, e)>> \o FindAll(s, e + 1, first, rest)

(***************************************************************************)
(* TextProcessor._tokenize                                                 *)
(***************************************************************************)
Tokenize(raw_text) == FindAll(StrLower(raw_text), 1, LetterSet, LetterSet)

(***************************************************************************)
(* TextProcessor._simple_lemmatize                                         *)
(***************************************************************************)
\* a variant that tests the "es" rule before the "ies" rule
SimpleLemmatizeEsFirst(word) ==
    IF EndsWith(word, "es") THEN DropLast(word, 2)
    ELSE IF EndsWith(word, "ies") /\ Len(word) > 3 THEN DropLast(word, 3) \o "y"
    ELSE IF EndsWith(word, "ed") /\ Len(word) > 4 THEN DropLast(word, 2)
    ELSE IF EndsWith(word, "ing") /\ Len(word) > 5 THEN DropLast(word, 3)
    ELSE IF EndsWith(word, "s") /\ Len(word) > 3 THEN DropLast(word, 1)
    ELSE word

SimpleLemmatize(word) ==
    IF EndsWith(word, "ies") /\ Len(word) > 3 THEN DropLast(word, 3) \o "y"
    ELSE IF EndsWith(word, "es") THEN DropLast(word, 2)
    ELSE IF EndsWith(word, "ed") /\ Len(word) > 4 THEN DropLast(word, 2)
    ELSE IF EndsWith(word, "ing") /\ Len(word) > 5 THEN DropLast(word, 3)
    ELSE IF EndsWith(word, "s") /\ Len(word) > 3 THEN DropLast(word, 1)
    ELSE word

(***************************************************************************)
(* stop_words = set(stopwords.words('english')): the NLTK English list     *)
(***************************************************************************)
stop_words ==
    {"i", "me", "my", "myself", "we", "our", "ours", "ourselves", "you", "you're",
     "you've", "you'll", "you'd", "your", "yours", "yourself", "yourselves", "he",
     "him", "his", "himself", "she", "she's", "her", "hers", "herself", "it", "it's",
     "its", "itself", "they", "them", "their", "theirs", "themselves", "what",
     "which", "who", "whom", "this", "that", "that'll", "these", "those", "am", "is",
     "are", "was", "were", "be", "been", "being", "have", "has", "had", "having",
     "do", "does", "did", "doing", "a", "an", "the", "and", "but", "if", "or",
     "because", "as", "until", "while", "of", "at", "by", "for", "with", "about",
     "against", "between", "into", "through", "during", "before", "after", "above",
     "below", "to", "from", "up", "down", "in", "out", "on", "off", "over", "under",
     "again", "further", "then", "once", "here", "there", "when", "where", "why",
     "how", "all", "any", "both", "each", "few", "more", "most", "other", "some",
     "such", "no", "nor", "not", "only", "own", "same", "so", "than", "too", "very",
     "s", "t", "can", "will", "just", "don", "don't", "should", "should've", "now",
     "d", "ll", "m", "o", "re", "ve", "y", "ain", "aren", "aren't", "couldn",
     "couldn't", "didn", "didn't", "doesn", "doesn't", "hadn", "hadn't", "hasn",
     "hasn't", "haven", "haven't", "isn", "isn't", "ma", "mightn", "mightn't",
     "mustn", "mustn't", "needn", "needn't", "shan", "shan't", "shouldn",
     "shouldn't", "wasn", "wasn't", "weren", "weren't", "won", "won't", "wouldn",
     "wouldn't"}

\* the names kept whatever the stopword set says
preserved_terms == {"romeo", "juliet", "verona"}

(***************************************************************************)
(* stemmer = PorterStemmer(): nltk.stem.porter in its default mode,        *)
(* NLTK_EXTENSIONS.  Positions are 1-based here, 0-based in Python.        *)
(***************************************************************************)
vowels == {"a", "e", "i", "o", "u"}

\* the irregular forms, value -> key
pool ==
    [w \in {"sky", "skies", "dying", "lying", "tying", "news", "innings", "inning",
            "outings", "outing", "cannings", "canning", "howe", "proceed", "exceed",
            "succeed"} |->
        CASE w \in {"sky", "skies"} -> "sky"
          [] w = "dying" -> "die"
          [] w = "lying" -> "lie"
          [] w = "tying" -> "tie"
          [] w \in {"innings", "inning"} -> "inning"
          [] w \in {"outings", "outing"} -> "outing"
          [] w \in {"cannings", "canning"} -> "canning"
          [] OTHER -> w]

RECURSIVE IsConsonant(_, _)
IsConsonant(word, i) ==
    IF Ch(word, i) \in vowels THEN FALSE
    ELSE IF Ch(word, i) = "y"
         THEN (IF i = 1 THEN TRUE ELSE ~IsConsonant(word, i - 1))
         ELSE TRUE

\* the number of "vc" in the consonant/vowel pattern of the stem
Measure(stem) ==
    Cardinality({i \in 1..(Len(stem) - 1) :
                    ~IsConsonant(stem, i) /\ IsConsonant(stem, i + 1)})

HasPositiveMeasure(stem) == Measure(stem) > 0

ContainsVowel(stem) == \E i \in 1..Len(stem) : ~IsConsonant(stem, i)

EndsDoubleConsonant(word) ==
    /\ Len(word) >= 2
    /\ Ch(word, Len(word)) = Ch(word, Len(word) - 1)
    /\ IsConsonant(word, Len(word))

EndsCvc(word) ==
    \/ /\ Len(word) >= 3
       /\ IsConsonant(word, Len(word) - 2)
       /\ ~IsConsonant(word, Len(word) - 1)
       /\ IsConsonant(word, Len(word))
       /\ Ch(word, Len(word)) \notin {"w", "x", "y"}
    \/ /\ Len(word) = 2
       /\ ~IsConsonant(word, 1)
       /\ IsConsonant(word, 2)

ReplaceSuffix(word, suffix, replacement) ==
    IF suffix = "" THEN word \o replacement
    ELSE DropLast(word, Len(suffix)) \o replacement

\* The conditions of the rules, by name; stem is the word without the suffix,
\* word is the word the rule list was applied to.
Condition(cond, stem, word) ==
    CASE cond = "none" -> TRUE
      [] cond = "m>0" -> HasPositiveMeasure(stem)
      [] cond = "m>1" -> Measure(stem) > 1
      [] cond = "not l,s,z" -> Ch(word, Len(word)) \notin {"l", "s", "z"}
      [] cond = "m=1 and *o" -> Measure(stem) = 1 /\ EndsCvc(stem)
      [] cond = "nltk 1c" -> Len(stem) > 1 /\ IsConsonant(stem, Len(stem))
      [] cond = "logi" -> HasPositiveMeasure(DropLast(word, 3))
      [] cond = "ion" -> Measure(stem) > 1 /\ Ch(stem, Len(stem)) \in {"s", "t"}
      [] cond = "ll" -> Measure(DropLast(word, 1)) > 1

\* _apply_rule_list: the first rule whose suffix matches decides
RECURSIVE ApplyRuleListFrom(_, _, _)
ApplyRuleListFrom(word, rules, k) ==
    IF k > Len(rules) THEN word
    ELSE LET suffix == rules[k][1]
             replacement == rules[k][2]
             cond == rules[k][3]
         IN IF suffix = "*d" /\ EndsDoubleConsonant(word)
            THEN LET stem == DropLast(word, 2)
                 IN IF Condition(cond, stem, word) THEN stem \o replacement ELSE word
            ELSE IF EndsWith(word, suffix)
            THEN LET stem == ReplaceSuffix(word, suffix, "")
                 IN IF Condition(cond, stem, word) THEN stem \o replacement ELSE word
            ELSE ApplyRuleListFrom(word, rules, k + 1)

ApplyRuleList(word, rules) == ApplyRuleListFrom(word, rules, 1)

Step1a(word) ==
    IF EndsWith(word, "ies") /\ Len(word) = 4 THEN ReplaceSuffix(word, "ies", "ie")
    ELSE ApplyRuleList(word, << <<"sses", "ss", "none">>,
                                <<"ies", "i", "none">>,
                                <<"ss", "ss", "none">>,
                                <<"s", "", "none">> >>)

Step1b(word) ==
    IF EndsWith(word, "ied")
    THEN (IF Len(word) = 4 THEN ReplaceSuffix(word, "ied", "ie")
          ELSE ReplaceSuffix(word, "ied", "i"))
    ELSE IF EndsWith(word, "eed")
    THEN LET stem == ReplaceSuffix(word, "eed", "")
         IN IF Measure(stem) > 0 THEN stem \o "ee" ELSE word
    ELSE LET ed_ok == EndsWith(word, "ed") /\ ContainsVowel(ReplaceSuffix(word, "ed", ""))
             ing_ok == EndsWith(word, "ing") /\ ContainsVowel(ReplaceSuffix(word, "ing", ""))
             intermediate_stem == IF ed_ok THEN ReplaceSuffix(word, "ed", "")
                                  ELSE ReplaceSuffix(word, "ing", "")
         IN IF ~(ed_ok \/ ing_ok) THEN word
            ELSE ApplyRuleList(intermediate_stem,
                     << <<"at", "ate", "none">>,
                        <<"bl", "ble", "none">>,
                        <<"iz", "ize", "none">>,
                        <<"*d", Ch(intermediate_stem, Len(intermediate_stem)), "not l,s,z">>,
                        <<"", "e", "m=1 and *o">> >>)

Step1c(word) == ApplyRuleList(word, << <<"y", "i", "nltk 1c">> >>)

Step2Rules ==
    << <<"ational", "ate", "m>0">>, <<"tional", "tion", "m>0">>,
       <<"enci", "ence", "m>0">>, <<"anci", "ance", "m>0">>,
       <<"izer", "ize", "m>0">>, <<"bli", "ble", "m>0">>,
       <<"alli", "al", "m>0">>, <<"entli", "ent", "m>0">>,
       <<"eli", "e", "m>0">>, <<"ousli", "ous", "m>0">>,
       <<"ization", "ize", "m>0">>, <<"ation", "ate", "m>0">>,
       <<"ator", "ate", "m>0">>, <<"alism", "al", "m>0">>,
       <<"iveness", "ive", "m>0">>, <<"fulness", "ful", "m>0">>,
       <<"ousness", "ous", "m>0">>, <<"aliti", "al", "m>0">>,
       <<"iviti", "ive", "m>0">>, <<"biliti", "ble", "m>0">>,
       <<"fulli", "ful", "m>0">>, <<"logi", "log", "logi">> >>

RECURSIVE Step2(_)
Step2(word) ==
    IF EndsWith(word, "alli") /\ HasPositiveMeasure(ReplaceSuffix(word, "alli", ""))
    THEN Step2(ReplaceSuffix(word, "alli", "al"))
    ELSE ApplyRuleList(word, Step2Rules)

Step3(word) ==
    ApplyRuleList(word, << <<"icate", "ic", "m>0">>, <<"ative", "", "m>0">>,
                           <<"alize", "al", "m>0">>, <<"iciti", "ic", "m>0">>,
                           <<"ical", "ic", "m>0">>, <<"ful", "", "m>0">>,
                           <<"ness", "", "m>0">> >>)

Step4(word) ==
    ApplyRuleList(word, << <<"al", "", "m>1">>, <<"ance", "", "m>1">>,
                           <<"ence", "", "m>1">>, <<"er", "", "m>1">>,
                           <<"ic", "", "m>1">>, <<"able", "", "m>1">>,
                           <<"ible", "", "m>1">>, <<"ant", "", "m>1">>,
                           <<"ement", "", "m>1">>, <<"ment", "", "m>1">>,
                           <<"ent", "", "m>1">>, <<"ion", "", "ion">>,
                           <<"ou", "", "m>1">>, <<"ism", "", "m>1">>,
                           <<"ate", "", "m>1">>, <<"iti", "", "m>1">>,
                           <<"ous", "", "m>1">>, <<"ive", "", "m>1">>,
                           <<"ize", "", "m>1">> >>)

Step5a(word) ==
    IF EndsWith(word, "e")
    THEN LET stem == ReplaceSuffix(word, "e", "")
         IN IF Measure(stem) > 1 THEN stem
            ELSE IF Measure(stem) = 1 /\ ~EndsCvc(stem) THEN stem
            ELSE word
    ELSE word

Step5b(word) == ApplyRuleList(word, << <<"ll", "l", "ll">> >>)

\* PorterStemmer.stem
Stem(word) ==
    LET stem == StrLower(word)
    IN IF word \in DOMAIN pool THEN pool[stem]
       ELSE IF Len(word) <= 2 THEN stem
       ELSE Step5b(Step5a(Step4(Step3(Step2(Step1c(Step1b(Step1a(stem))))))))

(***************************************************************************)
(* List and Counter helpers                                                *)
(***************************************************************************)
MapSeq(F(_), seq) == [i \in 1..Len(seq) |-> F(seq[i])]

\* Counter(iterable): one item per distinct element, in the order the
\* elements are first counted, each with the number of its occurrences
RECURSIVE CounterFrom(_, _)
CounterFrom(counter, seq) ==
    IF seq = <<>> THEN counter
    ELSE LET x == Head(seq)
             at == {j \in 1..Len(counter) : counter[j][1] = x}
         IN IF at = {}
            THEN CounterFrom(Append(counter, <<x, 1>>), Tail(seq))
            ELSE LET j == CHOOSE j \in at : TRUE
                 IN CounterFrom([counter EXCEPT ![j] = <<x, counter[j][2] + 1>>], Tail(seq))

Counter(seq) == CounterFrom(<<>>, seq)

\* sorted(items, key=itemgetter(1), reverse=True): a stable sort, so items of
\* equal count keep the order they have in the Counter
RECURSIVE SortedByCountDesc(_)
SortedByCountDesc(items) ==
    IF items = <<>> THEN <<>>
    ELSE LET best == CHOOSE j \in 1..Len(items) :
                        /\ \A k \in 1..Len(items) : items[k][2] <= items[j][2]
                        /\ \A k \in 1..(j - 1) : items[k][2] < items[j][2]
             others == [k \in 1..(Len(items) - 1) |-> IF k < best THEN items[k] ELSE items[k + 1]]
         IN <<items[best]>> \o SortedByCountDesc(others)

\* the slice seq[:n], n >= 0
Prefix(seq, n) == SubSeq(seq, 1, IF n < Len(seq) THEN n ELSE Len(seq))

\* heapq.nlargest(n, items, key=itemgetter(1))
Nlargest(n, items) ==
    IF n = 1
    THEN (IF items = <<>> THEN <<>> ELSE <<SortedByCountDesc(items)[1]>>)
    ELSE IF n >= Len(items) THEN Prefix(SortedByCountDesc(items), n)
    ELSE IF n <= 0 THEN <<>>
    ELSE Prefix(SortedByCountDesc(items), n)

\* a variant whose slice is one entry too long
MostCommonOneMore(counter, n) == Nlargest(n + 1, counter)

\* Counter.most_common(n) for an int n
MostCommon(counter, n) == Nlargest(n, counter)

(***************************************************************************)
(* TextProcessor._process_tokens                                           *)
(***************************************************************************)
NotStopped(t) == t \notin stop_words \/ t \in preserved_terms

\* a variant that removes the stopwords before it lemmatizes
ProcessTokensFilterFirst(tokens) ==
    LET no_stops == SelectSeq(tokens, NotStopped)
        lemmatized == MapSeq(SimpleLemmatize, no_stops)
    IN MapSeq(Stem, lemmatized)

ProcessTokens(tokens) ==
    LET lemmatized == MapSeq(SimpleLemmatize, tokens)
        no_stops == SelectSeq(lemmatized, NotStopped)
    IN MapSeq(Stem, no_stops)

(***************************************************************************)
(* TextProcessor._extract_named_entities                                   *)
(***************************************************************************)
blacklist == {"The", "And", "In", "A", "But", "As", "With", "For", "To", "At", "On"}

ExtractNamedEntities(raw_text) ==
    LET candidates == FindAll(raw_text, 1, UpperSet, LetterSet)
    IN {candidates[i] : i \in 1..Len(candidates)} \ blacklist

(***************************************************************************)
(* TextProcessor._compute_trigrams                                         *)
(***************************************************************************)
DefaultN == 3

\* the slice seq[i:], i >= 0
SliceFrom(seq, i) == SubSeq(seq, i + 1, Len(seq))

\* zip(*lists): as many tuples as the shortest list has elements
Zip(lists) ==
    LET shortest == CHOOSE m \in {Len(lists[i]) : i \in 1..Len(lists)} :
                        \A i \in 1..Len(lists) : m <= Len(lists[i])
    IN [j \in 1..shortest |-> [i \in 1..Len(lists) |-> lists[i][j]]]

\* a variant whose length test is off by one
ComputeTrigramsTooShort(processed_tokens, n) ==
    IF Len(processed_tokens) <= n THEN <<>>
    ELSE Counter(Zip([i \in 1..n |-> SliceFrom(processed_tokens, i - 1)]))

ComputeTrigrams(processed_tokens, n) ==
    IF Len(processed_tokens) < n THEN <<>>
    ELSE Counter(Zip([i \in 1..n |-> SliceFrom(processed_tokens, i - 1)]))

(***************************************************************************)
(* TextProcessor.__init__                                                  *)
(***************************************************************************)
NewProcessor(text, name) ==
    LET tokens == Tokenize(text)
        processed_tokens == ProcessTokens(tokens)
    IN [name |-> name,
        raw_text |-> text,
        tokens |-> tokens,
        processed_tokens |-> processed_tokens,
        named_entities |-> ExtractNamedEntities(text),
        token_freq |-> Counter(processed_tokens),
        trigram_freq |-> ComputeTrigrams(processed_tokens, DefaultN)]

(***************************************************************************)
(* top_tokens, top_trigrams, summary                                       *)
(***************************************************************************)
SummaryTokens == 20
SummaryTrigrams == 10

top_tokens(p, n) == MostCommon(p.token_freq, n)

top_trigrams(p, k) == MostCommon(p.trigram_freq, k)

\* the order of str comparison on letters: code points, capitals first
Ord(c) == CHOOSE i \in 1..(2 * Len(LowerLetters)) : Ch(UpperLetters \o LowerLetters, i) = c

RECURSIVE StrLess(_, _)
StrLess(a, b) ==
    IF Len(b) = 0 THEN FALSE
    ELSE IF Len(a) = 0 THEN TRUE
    ELSE IF Ch(a, 1) # Ch(b, 1) THEN Ord(Ch(a, 1)) < Ord(Ch(b, 1))
    ELSE StrLess(SubSeq(a, 2, Len(a)), SubSeq(b, 2, Len(b)))

\* sorted(a set of str)
RECURSIVE Sorted(_)
Sorted(S) ==
    IF S = {} THEN <<>>
    ELSE LET least == CHOOSE x \in S : \A y \in S \ {x} : StrLess(x, y)
         IN <<least>> \o Sorted(S \ {least})

\* ' '.join(trigram)
RECURSIVE Join(_)
Join(parts) ==
    IF Len(parts) = 0 THEN ""
    ELSE IF Len(parts) = 1 THEN parts[1]
    ELSE parts[1] \o " " \o Join(Tail(parts))

JoinItem(item) == <<Join(item[1]), item[2]>>

\* what summary() prints, one field per print statement
SummaryReport(p) ==
    [name |-> p.name,
     total |-> Len(p.tokens),
     n_entities |-> Cardinality(p.named_entities),
     entities |-> Sorted(p.named_entities),
     tokens |-> top_tokens(p, SummaryTokens),
     trigrams |-> MapSeq(JoinItem, top_trigrams(p, SummaryTrigrams))]

(***************************************************************************)
(* State                                                                   *)
(*   fs      the four input files: whether open().read() succeeds, and     *)
(*           the text it returns                                           *)
(*   isMain  whether the module runs as __main__                           *)
(*   pc      the line of the script about to run ("caller": no script, an  *)
(*           external caller drives one processor)                         *)
(*   texts   text1..text4, once read                                       *)
(*   procs   the processors constructed so far, by number                  *)
(*   stdout  what has been printed                                         *)
(*   ret     the value the last accessor call returned                     *)
(***************************************************************************)
MaxChunks == 3
MaxTop == 2
MaxSummaries == 2

\* pieces of text the inputs are built from
Chunks == {"The Fox ", "aB fox.", "Romeo bees flies ", "this ", "es ", "1", "_"}

RECURSIVE TextsOfLength(_)
TextsOfLength(n) ==
    IF n = 0 THEN {""}
    ELSE {t \o c : t \in TextsOfLength(n - 1), c \in Chunks}

Texts == UNION {TextsOfLength(n) : n \in 0..MaxChunks}

EmptyMap == [j \in {} |-> 0]

Put(map, i, v) == [j \in DOMAIN map \cup {i} |-> IF j = i THEN v ELSE map[j]]

Constructed(i) == i \in DOMAIN procs

\* processor = TextProcessor(text, name)
Construct(i, text, name) ==
    /\ ~Constructed(i)
    /\ procs' = Put(procs, i, NewProcessor(text, name))

\* calls on a constructed processor
TopTokens(i, n) ==
    /\ Constructed(i)
    /\ ret' = [op |-> "top_tokens", proc |-> i, arg |-> n, val |-> top_tokens(procs[i], n)]
    /\ UNCHANGED <<procs, stdout>>

TopTrigrams(i, k) ==
    /\ Constructed(i)
    /\ ret' = [op |-> "top_trigrams", proc |-> i, arg |-> k, val |-> top_trigrams(procs[i], k)]
    /\ UNCHANGED <<procs, stdout>>

\* a variant that keeps the sorted top tokens in token_freq
SummaryKeepsSorted(i) ==
    /\ Constructed(i)
    /\ stdout' = Append(stdout, [kind |-> "summary", proc |-> i, report |-> SummaryReport(procs[i])])
    /\ procs' = [procs EXCEPT ![i].token_freq = top_tokens(procs[i], SummaryTokens)]
    /\ UNCHANGED ret

Summary(i) ==
    /\ Constructed(i)
    /\ stdout' = Append(stdout, [kind |-> "summary", proc |-> i, report |-> SummaryReport(procs[i])])
    /\ UNCHANGED <<procs, ret>>

CallSimpleLemmatize(i, word) ==
    /\ Constructed(i)
    /\ ret' = [op |-> "_simple_lemmatize", proc |-> i, arg |-> word, val |-> SimpleLemmatize(word)]
    /\ UNCHANGED <<procs, stdout>>

(***************************************************************************)
(* One processor driven by a caller: construction from any text, then any  *)
(* calls of its accessors                                                  *)
(***************************************************************************)
NoFiles == EmptyMap

Init ==
    /\ fs = NoFiles
    /\ isMain = FALSE
    /\ pc = "caller"
    /\ texts = EmptyMap
    /\ procs = EmptyMap
    /\ stdout = <<>>
    /\ ret = [op |-> "none", proc |-> 0, arg |-> 0, val |-> <<>>]

CallerConstruct ==
    /\ pc = "caller"
    /\ ~Constructed(1)
    /\ \E text \in Texts : Construct(1, text, "Unknown")
    /\ UNCHANGED <<fs, isMain, pc, texts, stdout, ret>>

CallerTopTokens ==
    /\ pc = "caller"
    /\ \E n \in -1..MaxTop : TopTokens(1, n)
    /\ UNCHANGED <<fs, isMain, pc, texts>>

CallerTopTrigrams ==
    /\ pc = "caller"
    /\ \E k \in -1..MaxTop : TopTrigrams(1, k)
    /\ UNCHANGED <<fs, isMain, pc, texts>>

CallerSummary ==
    /\ pc = "caller"
    /\ Len(stdout) < MaxSummaries
    /\ Summary(1)
    /\ UNCHANGED <<fs, isMain, pc, texts>>

Next ==
    \/ CallerConstruct
    \/ CallerTopTokens
    \/ CallerTopTrigrams
    \/ CallerSummary

Spec == Init /\ [][Next]_vars

(***************************************************************************)
(* A caller of _simple_lemmatize on a processor of the empty text          *)
(***************************************************************************)
WordStems == {"", "a", "i", "y", "r", "k", "th", "us", "be", "fl", "box", "cat", "bab", "lov", "jump", "runn"}
WordEndings == {"", "s", "es", "ies", "ed", "ied", "ing", "ss"}

Words == {stem \o ending : stem \in WordStems, ending \in WordEndings} \ {""}

InitWord ==
    /\ fs = NoFiles
    /\ isMain = FALSE
    /\ pc = "caller"
    /\ texts = EmptyMap
    /\ procs = Put(EmptyMap, 1, NewProcessor("", "Unknown"))
    /\ stdout = <<>>
    /\ ret = [op |-> "none", proc |-> 0, arg |-> "", val |-> ""]

CallerSimpleLemmatize ==
    /\ pc = "caller"
    /\ \E word \in Words : CallSimpleLemmatize(1, word)
    /\ UNCHANGED <<fs, isMain, pc, texts>>

NextWord == CallerSimpleLemmatize

SpecWord == InitWord /\ [][NextWord]_vars

(***************************************************************************)
(* The script: lines 83-112                                                *)
(***************************************************************************)
FileNames == <<"RJ_Lovecraft.txt", "RJ_Tolkein.txt", "RJ_Martin.txt", "Martin.txt">>
ProcNames == <<"Text 1 - RJ_Lovecraft", "Text 2 - RJ_Tolkien", "Text 3 - RJ_Martin", "Text 4 - Pure Martin">>

Program ==
    <<"L83", "L84", "L85", "L86", "L88", "L89", "L90", "L91", "L94", "L95", "L98",
      "L99", "L100", "L103", "L104", "L105", "L106", "L107", "L109", "L110", "L111",
      "L112", "exit">>

NextPc(l) == Program[1 + CHOOSE j \in 1..(Len(Program) - 1) : Program[j] = l]

ReadLines == <<"L83", "L84", "L85", "L86">>
ConstructLines == <<"L88", "L89", "L90", "L91">>

\* the processor each summary() line of the main block is called on
SummaryLines ==
    [l \in {"L98", "L99", "L100", "L106", "L107"} |->
        CASE l = "L98" -> 1 [] l = "L99" -> 2 [] l = "L100" -> 3
          [] l = "L106" -> 3 [] l = "L107" -> 4]

\* the print statements of the main block outside summary()
PrintLines ==
    [l \in {"L95", "L103", "L104", "L105", "L109", "L110", "L111", "L112"} |->
        CASE l = "L95" -> "NLP COMPARATIVE ANALYSIS"
          [] l = "L103" -> "===="
          [] l = "L104" -> "AUTHORSHIP ANALYSIS VIA TRIGRAMS"
          [] l = "L105" -> "===="
          [] l = "L109" -> "CONCLUSION:"
          [] l = "L110" -> "Texts 1, 2, and 3 are all retellings of Romeo and Juliet."
          [] l = "L111" -> "Text 4 shares overwhelming stylistic trigrams with Text 3"
          [] l = "L112" -> "The author of Text 3 (George R.R. Martin style) also wrote Text 4."]

\* the contents a readable input file may have
ScriptTexts == {"", "The Quick fox. The Quick Fox ran."}

FileStates == {[ok |-> FALSE, data |-> ""]} \cup {[ok |-> TRUE, data |-> t] : t \in ScriptTexts}

InitScript ==
    /\ fs \in [1..Len(FileNames) -> FileStates]
    /\ isMain \in BOOLEAN
    /\ pc = "L83"
    /\ texts = EmptyMap
    /\ procs = EmptyMap
    /\ stdout = <<>>
    /\ ret = [op |-> "none", proc |-> 0, arg |-> 0, val |-> <<>>]

\* a variant that goes on with an empty text when the read fails
ReadFileGoesOn(i) ==
    /\ pc = ReadLines[i]
    /\ texts' = Put(texts, i, IF fs[i].ok THEN fs[i].data ELSE "")
    /\ pc' = NextPc(pc)
    /\ UNCHANGED <<fs, isMain, procs, stdout, ret>>

\* textN = open(file, "r", encoding="utf-8").read(): an exception ends the run
ReadFile(i) ==
    /\ pc = ReadLines[i]
    /\ IF fs[i].ok
       THEN /\ texts' = Put(texts, i, fs[i].data)
            /\ pc' = NextPc(pc)
       ELSE /\ texts' = texts
            /\ pc' = "fatal"
    /\ UNCHANGED <<fs, isMain, procs, stdout, ret>>

\* processorN = TextProcessor(textN, name)
ConstructProcessor(i) ==
    /\ pc = ConstructLines[i]
    /\ Construct(i, texts[i], ProcNames[i])
    /\ pc' = NextPc(pc)
    /\ UNCHANGED <<fs, isMain, texts, stdout, ret>>

\* if __name__ == "__main__":
MainGuard ==
    /\ pc = "L94"
    /\ pc' = IF isMain THEN NextPc(pc) ELSE "exit"
    /\ UNCHANGED <<fs, isMain, texts, procs, stdout, ret>>

PrintStatement ==
    /\ pc \in DOMAIN PrintLines
    /\ stdout' = Append(stdout, [kind |-> "line", text |-> PrintLines[pc]])
    /\ pc' = NextPc(pc)
    /\ UNCHANGED <<fs, isMain, texts, procs, ret>>

\* processorN.summary()
RunSummary ==
    /\ pc \in DOMAIN SummaryLines
    /\ Summary(SummaryLines[pc])
    /\ pc' = NextPc(pc)
    /\ UNCHANGED <<fs, isMain, texts>>

NextScript ==
    \/ \E i \in 1..Len(FileNames) : ReadFile(i)
    \/ \E i \in 1..Len(FileNames) : ConstructProcessor(i)
    \/ MainGuard
    \/ PrintStatement
    \/ RunSummary

SpecScript == InitScript /\ [][NextScript]_vars

(***************************************************************************)
(* Properties                                                              *)
(***************************************************************************)
\* the maximal runs of ASCII letters of s, left to right
RECURSIVE LetterRunsFrom(_, _)
LetterRunsFrom(s, pos) ==
    IF pos > Len(s) THEN <<>>
    ELSE IF Ch(s, pos) \notin LetterSet THEN LetterRunsFrom(s, pos + 1)
    ELSE LET last == CHOOSE e \in pos..Len(s) :
                        /\ \A j \in pos..e : Ch(s, j) \in LetterSet
                        /\ (e = Len(s) \/ Ch(s, e + 1) \notin LetterSet)
         IN <<SubSeq(s, pos, last)>> \o LetterRunsFrom(s, last + 1)

LetterRuns(s) == LetterRunsFrom(s, 1)

Range(seq) == {seq[i] : i \in 1..Len(seq)}

Occurrences(x, seq) == Cardinality({i \in 1..Len(seq) : seq[i] = x})

FirstIndex(x, seq) == CHOOSE i \in 1..Len(seq) : seq[i] = x /\ \A j \in 1..(i - 1) : seq[j] # x

RECURSIVE SumCounts(_)
SumCounts(items) == IF items = <<>> THEN 0 ELSE Head(items)[2] + SumCounts(Tail(items))

\* the contiguous windows of three tokens, sliding by one
Windows(seq) ==
    [i \in 1..(IF Len(seq) >= 3 THEN Len(seq) - 2 ELSE 0) |-> <<seq[i], seq[i + 1], seq[i + 2]>>]

\* C1: the tokens of a constructed processor are exactly the maximal runs of
\* ASCII letters of its raw text, lowercased, in left-to-right order; every
\* non-letter character, a digit or an underscore included, is a separator.
C1_TokensAreLetterRuns ==
    \A i \in DOMAIN procs :
        procs[i].tokens = MapSeq(StrLower, LetterRuns(procs[i].raw_text))

\* C2: the normalized sequence is the stem of each lemmatized token, in the
\* original order, of exactly the tokens whose lemma is not a stopword or is
\* a preserved term; nothing stands in for a dropped token, and the
\* normalized sequence is never longer than the token sequence.
C2_NormalizedIsStemOfKeptLemmas ==
    \A i \in DOMAIN procs :
        LET tokens == procs[i].tokens
            out == procs[i].processed_tokens
            kept == {k \in 1..Len(tokens) :
                        \/ SimpleLemmatize(tokens[k]) \notin stop_words
                        \/ SimpleLemmatize(tokens[k]) \in {"romeo", "juliet", "verona"}}
            \* the position in tokens of the j-th kept token
            origin(j) == CHOOSE k \in kept : Cardinality({m \in kept : m <= k}) = j
        IN /\ Len(out) = Cardinality(kept)
           /\ Len(out) <= Len(tokens)
           /\ \A j \in 1..Len(out) : out[j] = Stem(SimpleLemmatize(tokens[origin(j)]))

C2_Witness ==
    /\ Constructed(1)
    /\ procs[1].tokens = <<"the", "fox", "romeo", "bees", "flies">>
    /\ procs[1].processed_tokens = <<"fox", "romeo", "fli">>

\* C3: no token that is in the stopword set and is not a preserved term
\* contributes to the normalized sequence, to token_freq or to a trigram: the
\* normalized sequence and the counts of token_freq hold at most one element
\* per token that is not such a stopword, and a text of such stopwords alone
\* leaves both empty.
C3_StopwordsNeverCounted ==
    \A i \in DOMAIN procs :
        LET tokens == procs[i].tokens
            others == {k \in 1..Len(tokens) :
                          tokens[k] \notin stop_words \/ tokens[k] \in preserved_terms}
        IN /\ Len(procs[i].processed_tokens) <= Cardinality(others)
           /\ SumCounts(procs[i].token_freq) <= Cardinality(others)
           /\ (Cardinality(others) < 3 => procs[i].trigram_freq = <<>>)

\* C4: _simple_lemmatize applies exactly one rule, the first that matches:
\* "ies" and length > 3: "ies" becomes "y"; "es": stripped; "ed" and length > 4:
\* stripped; "ing" and length > 5: stripped; "s" and length > 3: stripped;
\* otherwise the word is returned as it is.
C4_LemmatizeFirstMatchingRule ==
    ret.op = "_simple_lemmatize" =>
        LET w == ret.arg
            r == ret.val
            ies == EndsWith(w, "ies") /\ Len(w) > 3
            es == ~ies /\ EndsWith(w, "es")
            ed == ~ies /\ ~es /\ EndsWith(w, "ed") /\ Len(w) > 4
            ing == ~ies /\ ~es /\ ~ed /\ EndsWith(w, "ing") /\ Len(w) > 5
            s1 == ~ies /\ ~es /\ ~ed /\ ~ing /\ EndsWith(w, "s") /\ Len(w) > 3
        IN /\ ies => (EndsWith(r, "y") /\ DropLast(r, 1) \o "ies" = w)
           /\ es => r \o "es" = w
           /\ ed => r \o "ed" = w
           /\ ing => r \o "ing" = w
           /\ s1 => r \o "s" = w
           /\ ~(ies \/ es \/ ed \/ ing \/ s1) => r = w
           /\ w = "flies" => r = "fly"
           /\ w = "boxes" => r = "box"
           /\ w = "jumped" => r = "jump"
           /\ w = "running" => r = "runn"
           /\ w = "cats" => r = "cat"
           /\ w = "is" => r = "is"

C4_Witness == ret.op = "_simple_lemmatize" /\ ret.arg = "flies" /\ ret.val = "fly"

\* C5: the entity set is the set of the maximal runs of letters of the raw
\* text whose first character is uppercase, less the blacklist.
C5_EntitiesAreCapitalizedRuns ==
    \A i \in DOMAIN procs :
        procs[i].named_entities =
            {r \in Range(LetterRuns(procs[i].raw_text)) : Ch(r, 1) \in UpperSet}
                \ {"The", "And", "In", "A", "But", "As", "With", "For", "To", "At", "On"}

\* C6: trigram_freq holds one observation per contiguous window of three
\* normalized tokens: its keys are distinct and are the windows that occur,
\* each count is the number of positions of its window, the counts sum to
\* max(0, L - 3 + 1), and the mapping is empty when L < 3.
C6_TrigramsCountWindows ==
    \A i \in DOMAIN procs :
        LET tf == procs[i].trigram_freq
            L == Len(procs[i].processed_tokens)
            windows == Windows(procs[i].processed_tokens)
        IN /\ SumCounts(tf) = (IF L - 3 + 1 > 0 THEN L - 3 + 1 ELSE 0)
           /\ \A a, b \in 1..Len(tf) : tf[a][1] = tf[b][1] => a = b
           /\ {tf[a][1] : a \in 1..Len(tf)} = Range(windows)
           /\ \A a \in 1..Len(tf) : tf[a][2] = Occurrences(tf[a][1], windows)
           /\ (L < 3 => tf = <<>>)

C6_Witness ==
    /\ Constructed(1)
    /\ Len(procs[1].processed_tokens) = 6
    /\ \E a \in 1..Len(procs[1].trigram_freq) : procs[1].trigram_freq[a][2] = 2

\* what top_tokens and top_trigrams count: the normalized tokens, the windows
Observed(op, p) == IF op = "top_tokens" THEN p.processed_tokens ELSE Windows(p.processed_tokens)

\* the entries are the highest-count ones, in non-increasing order of count,
\* entries of equal count in the order their keys were first counted
HighestFirst(val, obs) ==
    /\ \A a \in 1..Len(val) : val[a][1] \in Range(obs) /\ val[a][2] = Occurrences(val[a][1], obs)
    /\ \A a, b \in 1..Len(val) : a < b =>
          /\ val[a][1] # val[b][1]
          /\ val[a][2] >= val[b][2]
          /\ (val[a][2] = val[b][2] => FirstIndex(val[a][1], obs) < FirstIndex(val[b][1], obs))
    /\ \A x \in Range(obs) \ {val[a][1] : a \in 1..Len(val)} :
          \A a \in 1..Len(val) :
              \/ val[a][2] > Occurrences(x, obs)
              \/ val[a][2] = Occurrences(x, obs) /\ FirstIndex(val[a][1], obs) < FirstIndex(x, obs)

\* C7 as stated: for every integer n, top_tokens(n) and top_trigrams(n) return
\* at most n entries and at most as many as there are distinct keys, the
\* highest-count entries first, ties in the order the keys were first counted.
C7_AtMostN ==
    ret.op \in {"top_tokens", "top_trigrams"} =>
        LET obs == Observed(ret.op, procs[ret.proc])
        IN /\ Len(ret.val) <= ret.arg
           /\ Len(ret.val) <= Cardinality(Range(obs))
           /\ HighestFirst(ret.val, obs)

\* C7 amended: at most n entries when n >= 0 and none when n < 0; the rest as
\* stated (the entries are as many as n and the number of keys allow).
C7_AtMostNWhenNonNegative ==
    ret.op \in {"top_tokens", "top_trigrams"} =>
        LET obs == Observed(ret.op, procs[ret.proc])
            keys == Cardinality(Range(obs))
            most == IF ret.arg < 0 THEN 0 ELSE ret.arg
        IN /\ Len(ret.val) <= most
           /\ Len(ret.val) <= keys
           /\ Len(ret.val) = (IF most < keys THEN most ELSE keys)
           /\ HighestFirst(ret.val, obs)

C7_Witness ==
    /\ ret.op = "top_tokens"
    /\ ret.arg = 2
    /\ procs[1].token_freq = << <<"fox", 1>>, <<"romeo", 2>>, <<"fli", 2>> >>
    /\ ret.val = << <<"romeo", 2>>, <<"fli", 2>> >>

\* C8: when one of the four files cannot be read, the run ends in the fatal
\* error with nothing analysed: the script never gets past the reads, no
\* processor is ever constructed and nothing is ever printed.
C8_NoPartialAnalysis ==
    (\E i \in DOMAIN fs : ~fs[i].ok) =>
        /\ pc \in Range(ReadLines) \cup {"fatal"}
        /\ procs = EmptyMap
        /\ stdout = <<>>
        /\ (pc = "fatal" =>
               \E i \in DOMAIN fs :
                   /\ ~fs[i].ok
                   /\ \A j \in 1..(i - 1) : fs[j].ok
                   /\ DOMAIN texts = 1..(i - 1))

C8_Witness ==
    /\ pc = "fatal"
    /\ DOMAIN texts = {1, 2, 3}
    /\ fs[1].ok /\ fs[2].ok /\ fs[3].ok /\ ~fs[4].ok

\* C9: once a processor is constructed, no call of top_tokens, top_trigrams
\* or summary changes any of its fields, and all the summaries printed for it
\* have the same content.
C9_AccessorsChangeNothing ==
    [][/\ \A i \in DOMAIN procs : i \in DOMAIN procs' /\ procs'[i] = procs[i]
       /\ \A a, b \in 1..Len(stdout') :
             (stdout'[a].kind = "summary" /\ stdout'[b].kind = "summary"
                 /\ stdout'[a].proc = stdout'[b].proc)
             => stdout'[a].report = stdout'[b].report]_vars

C9_Witness ==
    /\ Len(stdout) = 2
    /\ ret.op = "top_trigrams"
    /\ stdout[1].report = stdout[2].report
    /\ Len(stdout[1].report.tokens) >= 2
    /\ procs[1].token_freq # stdout[1].report.tokens

\* C10: no element of the normalized sequence, no key of token_freq and no
\* component of a trigram key is the empty string.
C10_NoEmptyToken ==
    \A i \in DOMAIN procs :
        /\ \A j \in 1..Len(procs[i].processed_tokens) : procs[i].processed_tokens[j] # ""
        /\ \A j \in 1..Len(procs[i].token_freq) : procs[i].token_freq[j][1] # ""
        /\ \A j \in 1..Len(procs[i].trigram_freq) :
              \A k \in 1..3 : procs[i].trigram_freq[j][1][k] # ""

====
